---- MODULE Spec2Model ----
(***************************************************************************)
(* A model of piece_table.py: the two line-addressable text buffers        *)
(* ArrayOfStrings and PieceTable.  A text is a sequence of one-character   *)
(* strings.  A driver loads one text into one object of each class and     *)
(* then applies the same add_line / edit_line / remove_line calls to both. *)
(***************************************************************************)
EXTENDS Integers, Sequences, FiniteSets, TLC

VARIABLES
    original,      \* PieceTable.original : str
    add,           \* PieceTable.add : str
    pieces,        \* PieceTable.pieces : list[Piece]
    line_indexes,  \* PieceTable.line_indexes : dict[int, int]
    lines,         \* PieceTable.lines : int
    data,          \* ArrayOfStrings.data : list[str]
    last,          \* the last call: [op, n, text, pt, arr]; pt and arr are the outcomes
    prev,          \* the fields of both objects just before the last call
    calls,         \* number of edit calls since the load
    w,             \* an add_line in progress: its position and its locals
    snap           \* a reader's snapshot of self.pieces, and the text it denoted

vars == <<original, add, pieces, line_indexes, lines, data, last, prev, calls, w, snap>>

\* Bounds of the model.
MaxLen == 3
MaxCalls == 2

NL == "\n"

\* Characters of the loaded texts, and the loaded texts.
Alphabet == {"a", NL}
InitTexts == UNION {[1..k -> Alphabet] : k \in 0..MaxLen}

\* The new_line arguments of add_line and edit_line.
NewLines == {<<"x">>, <<"y", NL>>, <<NL, "z">>}

Min(a, b) == IF a < b THEN a ELSE b
Max(a, b) == IF a > b THEN a ELSE b

\* Python's s[i:j] for 0 <= i, 0 <= j (both clamped to len(s)).
Slice(s, i, j) == SubSeq(s, Min(i, Len(s)) + 1, Min(j, Len(s)))

\* str.endswith("\n")
EndsWithNL(s) == Len(s) > 0 /\ s[Len(s)] = NL

\* if not new_line.endswith("\n"): new_line += "\n"
Normalize(new_line) == IF EndsWithNL(new_line) THEN new_line ELSE Append(new_line, NL)

\* file.readlines(): the lines of a text, each with its terminator, the last
\* one without when the text does not end with one.
RECURSIVE ReadLines(_)
ReadLines(text) ==
    IF text = <<>> THEN <<>>
    ELSE LET nls == {i \in 1..Len(text) : text[i] = NL}
             k == IF nls = {} THEN Len(text)
                  ELSE CHOOSE i \in nls : \A j \in nls : i <= j
         IN <<SubSeq(text, 1, k)>> \o ReadLines(SubSeq(text, k + 1, Len(text)))

\* "".join(list)
RECURSIVE Join(_)
Join(list) == IF list = <<>> THEN <<>> ELSE Head(list) \o Join(Tail(list))

\* ---------------------------------------------------------------- Piece
Piece(source, start, length) == [source |-> source, start |-> start, length |-> length]

\* ---------------------------------------------------------- PieceTable
\* The scan of make_line_indexes, from character `index` (0-based) on.
RECURSIVE ScanLines(_, _, _, _)
ScanLines(text, index, idx, line_number) ==
    IF index >= Len(text) THEN <<idx, line_number>>
    ELSE IF text[index + 1] = NL
         THEN ScanLines(text, index + 1, ((line_number + 1) :> index) @@ idx, line_number + 1)
         ELSE ScanLines(text, index + 1, idx, line_number)

make_line_indexes(text) == ScanLines(text, 0, (0 :> 0), 0)

\* A slip in _initialize: the piece stops one character short.
InitialPiecesShort(text) ==
    IF text # <<>> THEN <<Piece("original", 0, Len(text) - 1)>> ELSE <<>>

\* self.pieces after _initialize
InitialPieces(text) == IF text # <<>> THEN <<Piece("original", 0, Len(text))>> ELSE <<>>

\* PieceTable.__str__ over given fields
Str(orig, addbuf, ps) ==
    LET Buffer(p) == IF p.source = "original" THEN orig ELSE addbuf
        Text(p) == Slice(Buffer(p), p.start, p.start + p.length)
    IN Join([i \in 1..Len(ps) |-> Text(ps[i])])

\* new_piece = Piece(source=Source.add, start=len(self.add), length=len(new_line))
NewPiece(addbuf, new_line) == Piece("add", Len(addbuf), Len(new_line))

\* A slip in add_line: "self.add = new_line" for "self.add += new_line".
AssignAdd(addbuf, new_line) == new_line

\* self.add += new_line
AppendAdd(addbuf, new_line) == addbuf \o new_line

\* A slip in the loop of add_line: the second half of a split piece keeps
\* the whole length of the piece.
RECURSIVE SplicePiecesLong(_, _, _, _, _)
SplicePiecesLong(ps, i, current_index, insert_index, new_piece) ==
    IF i > Len(ps) THEN <<>>
    ELSE LET piece == ps[i] IN
         IF current_index + piece.length < insert_index \/ current_index > insert_index
         THEN <<piece>> \o SplicePiecesLong(ps, i + 1, current_index + piece.length,
                                            insert_index, new_piece)
         ELSE IF current_index = insert_index
         THEN <<new_piece, piece>> \o SplicePiecesLong(ps, i + 1, current_index,
                                                       insert_index, new_piece)
         ELSE LET splice_distance == insert_index - current_index IN
              <<Piece(piece.source, piece.start, splice_distance),
                new_piece,
                Piece(piece.source, piece.start + splice_distance, piece.length)>>
              \o SplicePiecesLong(ps, i + 1, current_index, insert_index, new_piece)

\* The loop of add_line over self.pieces, from piece i on: the value of
\* new_pieces it builds.  current_index advances only when a piece is copied.
RECURSIVE SplicePieces(_, _, _, _, _)
SplicePieces(ps, i, current_index, insert_index, new_piece) ==
    IF i > Len(ps) THEN <<>>
    ELSE LET piece == ps[i] IN
         IF current_index + piece.length < insert_index
         THEN <<piece>> \o SplicePieces(ps, i + 1, current_index + piece.length,
                                        insert_index, new_piece)
         ELSE IF current_index > insert_index
         THEN <<piece>> \o SplicePieces(ps, i + 1, current_index + piece.length,
                                        insert_index, new_piece)
         ELSE IF current_index = insert_index
         THEN <<new_piece, piece>> \o SplicePieces(ps, i + 1, current_index,
                                                   insert_index, new_piece)
         ELSE LET splice_distance == insert_index - current_index IN
              <<Piece(piece.source, piece.start, splice_distance),
                new_piece,
                Piece(piece.source, piece.start + splice_distance,
                      piece.length - splice_distance)>>
              \o SplicePieces(ps, i + 1, current_index, insert_index, new_piece)

\* The loop of add_line that builds new_line_indexes raises KeyError when it
\* reads a key self.line_indexes does not have.  new_line_indexes is a local
\* that is never stored.
IndexLoopKeyError(idx, line_number, new_lines) ==
    \E i \in 0..(new_lines - 1) :
        \/ i < line_number /\ i \notin DOMAIN idx
        \/ i > line_number /\ (i - 1) \notin DOMAIN idx

\* PieceTable.add_line: the outcome and the fields it leaves.
PTAddLine(line_number, text) ==
    LET new_line == Normalize(text)
        new_piece == NewPiece(add, new_line)
        same == [add |-> add, pieces |-> pieces, lines |-> lines]
    IN IF line_number > lines
       THEN [out |-> "ValueError"] @@ same
       ELSE IF line_number \notin DOMAIN line_indexes
       THEN [out |-> "KeyError", add |-> AppendAdd(add, new_line)] @@ same
       ELSE LET insert_index == line_indexes[line_number] + 1
                new_pieces == SplicePieces(pieces, 1, 0, insert_index, new_piece)
            IN [out |-> IF IndexLoopKeyError(line_indexes, line_number, lines + 1)
                        THEN "KeyError" ELSE "ok",
                add |-> AppendAdd(add, new_line),
                pieces |-> new_pieces,
                lines |-> lines + 1]

\* PieceTable.edit_line: its first statement raises NotImplementedError.
PTEditLine(line_number, text) == "NotImplementedError"

\* PieceTable defines no remove_line: the call raises AttributeError.
PTRemoveLine(line_number) == "AttributeError"

\* ------------------------------------------------------ ArrayOfStrings
ArrStr(d) == Join(d)

\* Whether list index i is valid for d[i] and d.pop(i) (negative ones count
\* from the end), and the position (1-based) it denotes.
ValidIndex(d, i) == -Len(d) <= i /\ i < Len(d)
Position(d, i) == IF i < 0 THEN i + Len(d) + 1 ELSE i + 1

\* list.insert(i, x): never fails, clamps i to the list.
ListInsert(d, i, x) ==
    LET j == IF i < 0 THEN Max(i + Len(d), 0) ELSE Min(i, Len(d))
    IN SubSeq(d, 1, j) \o <<x>> \o SubSeq(d, j + 1, Len(d))

\* list.pop(i) for a valid index i
ListPop(d, i) == SubSeq(d, 1, Position(d, i) - 1) \o SubSeq(d, Position(d, i) + 1, Len(d))

\* ArrayOfStrings.add_line on an object whose data is d
ArrAddLineOn(d, line_number, text) ==
    [out |-> "ok", data |-> ListInsert(d, line_number, Normalize(text))]

\* A slip in edit_line: the new line is stored without the normalization.
ArrEditLineRaw(d, line_number, text) ==
    IF ValidIndex(d, line_number)
    THEN [out |-> "ok", data |-> [d EXCEPT ![Position(d, line_number)] = text]]
    ELSE [out |-> "IndexError", data |-> d]

\* ArrayOfStrings.edit_line on an object whose data is d
ArrEditLineOn(d, line_number, text) ==
    IF ValidIndex(d, line_number)
    THEN [out |-> "ok",
          data |-> [d EXCEPT ![Position(d, line_number)] = Normalize(text)]]
    ELSE [out |-> "IndexError", data |-> d]

\* ArrayOfStrings.remove_line on an object whose data is d
ArrRemoveLineOn(d, line_number) ==
    IF ValidIndex(d, line_number)
    THEN [out |-> "ok", data |-> ListPop(d, line_number)]
    ELSE [out |-> "IndexError", data |-> d]

\* The three calls on the driver's ArrayOfStrings.
ArrAddLine(line_number, text) == ArrAddLineOn(data, line_number, text)
ArrEditLine(line_number, text) == ArrEditLineOn(data, line_number, text)
ArrRemoveLine(line_number) == ArrRemoveLineOn(data, line_number)

\* ------------------------------------------------------------ the state
Fields == [original |-> original, add |-> add, pieces |-> pieces,
           line_indexes |-> line_indexes, lines |-> lines, data |-> data]

\* No add_line in progress, and no snapshot taken.
Idle == [pc |-> "idle", n |-> 0, new_line |-> <<>>, new_piece |-> Piece("add", 0, 0),
         new_pieces |-> <<>>]
NoSnapshot == [taken |-> FALSE, pieces |-> <<>>, text |-> <<>>]

Init ==
    \E text \in InitTexts :
        /\ w = Idle
        /\ snap = NoSnapshot
        /\ original = text
        /\ line_indexes = make_line_indexes(text)[1]
        /\ lines = make_line_indexes(text)[2]
        /\ add = <<>>
        /\ pieces = InitialPieces(text)
        /\ data = ReadLines(text)
        /\ last = [op |-> "__init__", n |-> 0, text |-> text, pt |-> "ok", arr |-> "ok"]
        /\ prev = [original |-> text, add |-> <<>>, pieces |-> InitialPieces(text),
                   line_indexes |-> make_line_indexes(text)[1],
                   lines |-> make_line_indexes(text)[2], data |-> ReadLines(text)]
        /\ calls = 0

\* The line numbers the driver passes.
LineNumbers == (-1)..(Max(lines, Len(data)) + 1)

\* read_file of both objects on a file holding `text`; the driver loads a
\* file, if at all, into freshly constructed objects.
ReadFile(text) ==
    /\ last.op = "__init__"
    /\ original' = text
    /\ line_indexes' = make_line_indexes(text)[1]
    /\ lines' = make_line_indexes(text)[2]
    /\ add' = <<>>
    /\ pieces' = InitialPieces(text)
    /\ data' = ReadLines(text)
    /\ last' = [op |-> "read_file", n |-> 0, text |-> text, pt |-> "ok", arr |-> "ok"]
    /\ prev' = [original |-> text, add |-> <<>>, pieces |-> InitialPieces(text),
                line_indexes |-> make_line_indexes(text)[1],
                lines |-> make_line_indexes(text)[2], data |-> ReadLines(text)]
    /\ calls' = 0
    /\ UNCHANGED <<w, snap>>

\* add_line(n, text) on both objects
AddLine(n, text) ==
    /\ calls < MaxCalls
    /\ add' = PTAddLine(n, text).add
    /\ pieces' = PTAddLine(n, text).pieces
    /\ lines' = PTAddLine(n, text).lines
    /\ data' = ArrAddLine(n, text).data
    /\ last' = [op |-> "add_line", n |-> n, text |-> text,
                pt |-> PTAddLine(n, text).out, arr |-> ArrAddLine(n, text).out]
    /\ prev' = Fields
    /\ calls' = calls + 1
    /\ UNCHANGED <<original, line_indexes, w, snap>>

\* edit_line(n, text) on both objects
EditLine(n, text) ==
    /\ calls < MaxCalls
    /\ data' = ArrEditLine(n, text).data
    /\ last' = [op |-> "edit_line", n |-> n, text |-> text,
                pt |-> PTEditLine(n, text), arr |-> ArrEditLine(n, text).out]
    /\ prev' = Fields
    /\ calls' = calls + 1
    /\ UNCHANGED <<original, add, pieces, line_indexes, lines, w, snap>>

\* remove_line(n) on both objects
RemoveLine(n) ==
    /\ calls < MaxCalls
    /\ data' = ArrRemoveLine(n).data
    /\ last' = [op |-> "remove_line", n |-> n, text |-> <<>>,
                pt |-> PTRemoveLine(n), arr |-> ArrRemoveLine(n).out]
    /\ prev' = Fields
    /\ calls' = calls + 1
    /\ UNCHANGED <<original, add, pieces, line_indexes, lines, w, snap>>

Next ==
    \/ \E text \in InitTexts : ReadFile(text)
    \/ \E n \in LineNumbers, text \in NewLines : AddLine(n, text)
    \/ \E n \in LineNumbers, text \in NewLines : EditLine(n, text)
    \/ \E n \in LineNumbers : RemoveLine(n)

Spec == Init /\ [][Next]_vars

\* The serialized documents.
PTDoc == Str(original, add, pieces)
PrevPTDoc == Str(prev.original, prev.add, prev.pieces)
ArrDoc == ArrStr(data)

EditOps == {"add_line", "edit_line", "remove_line"}
LoadOps == {"__init__", "read_file"}

\* A list of lines without its line n (0-based).
WithoutLine(ls, n) == SubSeq(ls, 1, n) \o SubSeq(ls, n + 2, Len(ls))

\* A list of lines with `line` put before its line n (0-based).
WithLine(ls, n, line) == SubSeq(ls, 1, n) \o <<line>> \o SubSeq(ls, n + 1, Len(ls))

IsPrefix(s, t) == Len(s) <= Len(t) /\ SubSeq(t, 1, Len(s)) = s

\* The sum of the lengths of a piece list.
RECURSIVE SumLengths(_)
SumLengths(ps) == IF ps = <<>> THEN 0 ELSE Head(ps).length + SumLengths(Tail(ps))

\* Whether piece p is a range of its own source buffer.
InBuffer(p, orig, addbuf) ==
    LET buffer == IF p.source = "original" THEN orig ELSE addbuf
    IN p.start >= 0 /\ p.length >= 0 /\ p.start + p.length <= Len(buffer)

\* ------------------------------------------------------------------ C1
\* C1: a PieceTable built from a text T (by the constructor or by read_file)
\* and serialized with no edit in between yields exactly T.
C1_RoundTrip == last.op \in LoadOps => PTDoc = last.text

\* A loaded text of several lines whose last line has no terminator.
C1_Witness ==
    /\ last.op = "read_file"
    /\ Len(ReadLines(last.text)) >= 2
    /\ ~EndsWithNL(last.text)
    /\ PTDoc = last.text

\* ------------------------------------------------------------------ C2
\* C2: after a successful add_line(n, text) with n in [0, L] the document has
\* one line more, line n is the normalized text and the other lines are the
\* previous ones in their order.  Stated for texts that normalize to one line.
C2_InsertionShape ==
    (/\ last.op = "add_line" /\ last.pt = "ok"
     /\ 0 <= last.n /\ last.n <= prev.lines
     /\ Len(ReadLines(Normalize(last.text))) = 1)
    => ReadLines(PTDoc) = WithLine(ReadLines(PrevPTDoc), last.n, Normalize(last.text))

\* ------------------------------------------------------------------ C3
\* C3: edit_line(n, text) of PieceTable succeeds for every n in [0, lines),
\* keeps the line count, replaces line n by the normalized text and keeps the
\* other lines; it fails only for n outside [0, lines).
C3_EditReplaces ==
    last.op = "edit_line" =>
        IF 0 <= last.n /\ last.n < prev.lines
        THEN /\ last.pt = "ok"
             /\ lines = prev.lines
             /\ ReadLines(PTDoc) =
                    WithLine(WithoutLine(ReadLines(PrevPTDoc), last.n),
                             last.n, Normalize(last.text))
        ELSE last.pt # "ok"

\* ------------------------------------------------------------------ C4
\* C4: remove_line(n) of PieceTable with 0 <= n < L leaves L-1 lines, line n
\* removed and the others unchanged in their order; remove_line(L) and
\* remove_line on an empty document fail.
C4_RemoveLine ==
    last.op = "remove_line" =>
        IF 0 <= last.n /\ last.n < prev.lines
        THEN /\ last.pt = "ok"
             /\ lines = prev.lines - 1
             /\ ReadLines(PTDoc) = WithoutLine(ReadLines(PrevPTDoc), last.n)
        ELSE last.pt # "ok"

\* ------------------------------------------------------------------ C5
\* C5: with L the line count, add_line(L, text) succeeds and appends the text
\* as the last line, and add_line(L+1, text) fails.  The append is stated for
\* documents that are empty or end with a terminator.
C5_Boundary ==
    last.op = "add_line" =>
        /\ (last.n = prev.lines /\ (PrevPTDoc = <<>> \/ EndsWithNL(PrevPTDoc)))
             => (last.pt = "ok" /\ PTDoc = PrevPTDoc \o Normalize(last.text))
        /\ last.n = prev.lines + 1 => last.pt # "ok"

\* ------------------------------------------------------------------ C6
\* C6: when add_line, edit_line or remove_line of PieceTable ends in an error,
\* the original buffer, the add buffer, the piece list, the line index and the
\* line count are as before the call.
C6_AllOrNothing ==
    (last.op \in EditOps /\ last.pt # "ok") =>
        /\ original = prev.original
        /\ add = prev.add
        /\ pieces = prev.pieces
        /\ line_indexes = prev.line_indexes
        /\ lines = prev.lines

\* ------------------------------------------------------------------ C7
\* C7: every call has the same outcome (success or error) on ArrayOfStrings
\* and on PieceTable, and after every call the two serialized documents are
\* equal.
C7_SameOnBoth ==
    /\ (last.pt = "ok") <=> (last.arr = "ok")
    /\ PTDoc = ArrDoc

\* ------------------------------------------------------------------ C8
\* C8: no piece of the piece list has length 0, and the piece list is empty
\* only when the document is empty.
C8_NoEmptyPiece ==
    /\ \A i \in DOMAIN pieces : pieces[i].length > 0
    /\ pieces = <<>> => PTDoc = <<>>

\* ------------------------------------------------------------------ C9
\* C9: every piece of the piece list is a range of its own source buffer, so
\* the piece lengths sum to the length of the serialized document; the pieces
\* of the piece list before the last call are still ranges of the buffers.
C9_PiecesInBuffers ==
    /\ \A i \in DOMAIN pieces : InBuffer(pieces[i], original, add)
    /\ SumLengths(pieces) = Len(PTDoc)
    /\ \A i \in DOMAIN prev.pieces : InBuffer(prev.pieces[i], original, add)

\* A piece list with split pieces of both buffers after two add_line calls.
C9_Witness ==
    /\ calls >= 2 /\ last.op = "add_line" /\ last.pt = "ok"
    /\ prev.pieces # pieces
    /\ Len(pieces) >= 5
    /\ \E i \in DOMAIN pieces : pieces[i].source = "add" /\ pieces[i].start > 0
    /\ \E i \in DOMAIN pieces : pieces[i].source = "original" /\ pieces[i].start > 0
    /\ SumLengths(pieces) = Len(PTDoc)

\* ----------------------------------------------------------------- C10
\* C10: over every edit call the add buffer before the call is a prefix of
\* the add buffer after it, and a successful add_line appends exactly the
\* normalized text at the previous end of the add buffer.
C10_AddAppendOnly ==
    [][last'.op \in EditOps =>
          /\ IsPrefix(add, add')
          /\ (last'.op = "add_line" /\ last'.pt = "ok")
               => add' = add \o Normalize(last'.text)]_vars

\* A successful add_line on a document whose add buffer already held text.
C10_Witness ==
    /\ last.op = "add_line" /\ last.pt = "ok"
    /\ prev.add # <<>>
    /\ add = prev.add \o Normalize(last.text)

\* ----------------------------------------------------------------- C11
\* C11: the line index has entry 0 equal to 0, its entries are strictly
\* increasing in the line number, and it has as many entries as the document
\* has lines (none for an empty document).
C11_LineIndexShape ==
    /\ 0 \in DOMAIN line_indexes => line_indexes[0] = 0
    /\ \A i, j \in DOMAIN line_indexes : i < j => line_indexes[i] < line_indexes[j]
    /\ Cardinality(DOMAIN line_indexes) = lines

\* ----------------------------------------------------------------- C12
\* C12: after a successful add_line(n, text) with normalized text of length
\* k the stored line index keeps the entries of the lines < n, has an entry
\* for line n equal to the insertion offset, has each former entry of a line
\* >= n at line + 1 and increased by k, and the line count is one more.
C12_LineIndexUpdated ==
    (last.op = "add_line" /\ last.pt = "ok") =>
        LET old == prev.line_indexes
            k == Len(Normalize(last.text))
        IN /\ lines = prev.lines + 1
           /\ \A i \in DOMAIN old : i < last.n =>
                  (i \in DOMAIN line_indexes /\ line_indexes[i] = old[i])
           /\ last.n \in DOMAIN line_indexes
           /\ line_indexes[last.n] = old[last.n] + 1
           /\ \A i \in DOMAIN old : i >= last.n =>
                  (i + 1 \in DOMAIN line_indexes /\ line_indexes[i + 1] = old[i] + k)

\* ----------------------------------------------------------------- C13
\* The offset (0-based) of the k-th line terminator of a text.
KthTerminator(text, k) ==
    LET at == {i \in 0..(Len(text) - 1) : text[i + 1] = NL}
    IN CHOOSE i \in at : Cardinality({j \in at : j < i}) = k - 1

\* C13: after a load the line index maps line 0 to offset 0 and each line
\* k >= 1 to the offset that follows the k-th line terminator, where line k
\* starts.
C13_LineStarts ==
    last.op \in LoadOps =>
        /\ line_indexes[0] = 0
        /\ \A k \in 1..Cardinality({i \in 1..Len(last.text) : last.text[i] = NL}) :
              /\ k \in DOMAIN line_indexes
              /\ line_indexes[k] = KthTerminator(last.text, k) + 1

\* ----------------------------------------------------------------- C14
\* The line the last add_line or edit_line stored in the ArrayOfStrings, and
\* the text the last add_line put into the PieceTable.
ArrStoredLine ==
    IF last.op = "add_line"
    THEN data[(IF last.n < 0 THEN Max(last.n + Len(prev.data), 0)
               ELSE Min(last.n, Len(prev.data))) + 1]
    ELSE data[Position(prev.data, last.n)]
PTStoredLine == SubSeq(add, Len(prev.add) + 1, Len(add))

\* A text that is one line: its only terminator is its last character.
OneLine(l) == EndsWithNL(l) /\ Cardinality({i \in 1..Len(l) : l[i] = NL}) = 1

\* C14: the line a successful add_line or edit_line of either class stores
\* ends with exactly one terminator and is exactly one line, whatever the
\* text passed.
C14_OneTerminator ==
    last.op \in {"add_line", "edit_line"} =>
        /\ last.arr = "ok" => OneLine(ArrStoredLine)
        /\ last.pt = "ok" => OneLine(PTStoredLine)

\* ----------------------------------------------------------------- C15
\* C15: with L the number of stored lines, add_line(i, text) of
\* ArrayOfStrings fails for i outside [0, L], edit_line(i, text) and
\* remove_line(i) fail for i outside [0, L), and a failing call leaves the
\* stored lines unchanged.
C15_ArrRangeChecked ==
    /\ (last.op = "add_line" /\ (last.n < 0 \/ last.n > Len(prev.data)))
         => (last.arr # "ok" /\ data = prev.data)
    /\ (last.op \in {"edit_line", "remove_line"}
          /\ (last.n < 0 \/ last.n >= Len(prev.data)))
         => (last.arr # "ok" /\ data = prev.data)

\* ----------------------------------------------------------------- C16
\* C16: on an ArrayOfStrings with L lines, edit_line(n, text) with
\* 0 <= n < L leaves the same lines as remove_line(n) followed by
\* add_line(n, text).
C16_EditIsRemoveThenAdd ==
    (last.op = "edit_line" /\ 0 <= last.n /\ last.n < Len(prev.data)) =>
        LET removed == ArrRemoveLineOn(prev.data, last.n)
            added == ArrAddLineOn(removed.data, last.n, last.text)
        IN /\ last.arr = "ok" /\ removed.out = "ok" /\ added.out = "ok"
           /\ data = added.data
           /\ ArrDoc = ArrStr(added.data)

\* An edit_line of a line in the middle of a document of several lines.
C16_Witness ==
    /\ last.op = "edit_line" /\ last.arr = "ok"
    /\ 0 < last.n /\ last.n < Len(prev.data) - 1
    /\ data # prev.data
    /\ data = ArrAddLineOn(ArrRemoveLineOn(prev.data, last.n).data, last.n, last.text).data

\* ----------------------------------------------------------------- C17
\* The length of the first j pieces of a piece list.
LengthBefore(ps, j) == SumLengths(SubSeq(ps, 1, j))

\* C17: a successful add_line whose insertion offset is on a piece boundary
\* (document start, document end, junction of two pieces) splits no piece
\* and adds one piece; otherwise one piece is replaced by two pieces of its
\* source that cover [start, k) and [k, end) with the new piece between
\* them; all other pieces are carried over unchanged and in order.
C17_SplitStep ==
    (last.op = "add_line" /\ last.pt = "ok") =>
        LET P == prev.pieces
            offset == prev.line_indexes[last.n] + 1
            new_piece == NewPiece(prev.add, Normalize(last.text))
        IN IF \E j \in 0..Len(P) : LengthBefore(P, j) = offset
           THEN \E j \in 0..Len(P) :
                   /\ LengthBefore(P, j) = offset
                   /\ pieces = SubSeq(P, 1, j) \o <<new_piece>> \o SubSeq(P, j + 1, Len(P))
           ELSE \E j \in 1..Len(P) :
                   /\ LengthBefore(P, j - 1) < offset
                   /\ offset < LengthBefore(P, j)
                   /\ LET k == offset - LengthBefore(P, j - 1) IN
                      pieces = SubSeq(P, 1, j - 1)
                               \o <<Piece(P[j].source, P[j].start, k),
                                    new_piece,
                                    Piece(P[j].source, P[j].start + k, P[j].length - k)>>
                               \o SubSeq(P, j + 1, Len(P))

\* ----------------------------------------------------------------- C19
\* C19: after a successful add_line the piece list holds exactly one piece
\* for the add-buffer range just appended, and the document is longer by the
\* length of the normalized text.
C19_InsertedOnce ==
    (last.op = "add_line" /\ last.pt = "ok") =>
        LET new_piece == NewPiece(prev.add, Normalize(last.text))
        IN /\ Cardinality({i \in DOMAIN pieces : pieces[i] = new_piece}) = 1
           /\ Len(PTDoc) = Len(PrevPTDoc) + Len(Normalize(last.text))

\* ----------------------------------------------------------------- C18
\* add_line of PieceTable statement by statement, with a reader that takes a
\* snapshot of self.pieces at any moment.  The steps are cut at the writes to
\* the fields of the object (lines 195, 223, 226); the statements between two
\* writes only read fields and write locals.  The ArrayOfStrings and the
\* record of the last call take no part.
InitSnap ==
    \E text \in InitTexts :
        /\ original = text
        /\ line_indexes = make_line_indexes(text)[1]
        /\ lines = make_line_indexes(text)[2]
        /\ add = <<>>
        /\ pieces = InitialPieces(text)
        /\ data = ReadLines(text)
        /\ last = [op |-> "__init__", n |-> 0, text |-> text, pt |-> "ok", arr |-> "ok"]
        /\ prev = [original |-> text, add |-> <<>>, pieces |-> InitialPieces(text),
                   line_indexes |-> make_line_indexes(text)[1],
                   lines |-> make_line_indexes(text)[2], data |-> ReadLines(text)]
        /\ calls = 0
        /\ w = Idle
        /\ snap = NoSnapshot

\* Lines 188-195: normalize, the range check (ValueError ends the call),
\* new_piece, and self.add += new_line.
Begin(n, text) ==
    /\ w.pc = "idle"
    /\ calls < MaxCalls
    /\ calls' = calls + 1
    /\ IF n > lines
       THEN UNCHANGED <<add, w>>
       ELSE /\ add' = AppendAdd(add, Normalize(text))
            /\ w' = [pc |-> "appended", n |-> n, new_line |-> Normalize(text),
                     new_piece |-> NewPiece(add, Normalize(text)), new_pieces |-> <<>>]
    /\ UNCHANGED <<original, pieces, line_indexes, lines, data, last, prev, snap>>

\* Lines 198-222: insert_index (KeyError ends the call) and the loop that
\* builds the new list new_pieces from the pieces of self.pieces.
Build ==
    /\ w.pc = "appended"
    /\ IF w.n \notin DOMAIN line_indexes
       THEN w' = Idle
       ELSE w' = [w EXCEPT !.pc = "built",
                           !.new_pieces = SplicePieces(pieces, 1, 0,
                                                       line_indexes[w.n] + 1, w.new_piece)]
    /\ UNCHANGED <<original, add, pieces, line_indexes, lines, data, last, prev, calls, snap>>

\* Line 223: self.pieces = new_pieces
Publish ==
    /\ w.pc = "built"
    /\ pieces' = w.new_pieces
    /\ w' = [w EXCEPT !.pc = "published"]
    /\ UNCHANGED <<original, add, line_indexes, lines, data, last, prev, calls, snap>>

\* Line 226: self.lines += 1
Count ==
    /\ w.pc = "published"
    /\ lines' = lines + 1
    /\ w' = [w EXCEPT !.pc = "counted"]
    /\ UNCHANGED <<original, add, pieces, line_indexes, data, last, prev, calls, snap>>

\* Lines 227-234: the loop over the line index (it ends the call, with a
\* KeyError or without) writes only the local new_line_indexes.
Finish ==
    /\ w.pc = "counted"
    /\ w' = Idle
    /\ UNCHANGED <<original, add, pieces, line_indexes, lines, data, last, prev, calls, snap>>

\* The reader keeps the list self.pieces refers to now.  add_line appends
\* only to its own new list, so the list the reader holds keeps its content.
TakeSnapshot ==
    /\ ~snap.taken
    /\ snap' = [taken |-> TRUE, pieces |-> pieces, text |-> Str(original, add, pieces)]
    /\ UNCHANGED <<original, add, pieces, line_indexes, lines, data, last, prev, calls, w>>

NextSnap ==
    \/ \E n \in LineNumbers, text \in NewLines : Begin(n, text)
    \/ Build
    \/ Publish
    \/ Count
    \/ Finish
    \/ TakeSnapshot

SpecSnap == InitSnap /\ [][NextSnap]_vars

\* C18: a reader that resolves its snapshot of the piece list against the
\* original and add buffers at any later moment, after further add_line calls
\* or between the steps of one, reads the text the snapshot denoted when it
\* was taken.
C18_SnapshotReadsSame ==
    snap.taken => Str(original, add, snap.pieces) = snap.text

\* A snapshot with a piece of the add buffer, read while a later add_line
\* has grown the add buffer and published another piece list, and has not
\* returned yet.
C18_Witness ==
    /\ snap.taken
    /\ \E i \in DOMAIN snap.pieces : snap.pieces[i].source = "add"
    /\ w.pc = "published"
    /\ pieces # snap.pieces
    /\ Str(original, add, pieces) # snap.text
    /\ Str(original, add, snap.pieces) = snap.text

====
